---- MODULE Spec2Model ----
(***************************************************************************)
(* Finn - personal finance ledger (src/src/main.rs).                       *)
(*                                                                         *)
(* One run of the program is: parse the command line, load the account     *)
(* list from accounts.json, run one subcommand on the in-memory list,      *)
(* save the list back.  The model keeps the persisted file, the in-memory  *)
(* list, the parsed command line, the lines printed by the current run and *)
(* the calendar day; before is a history variable, the list as the current *)
(* run loaded it.  A run can be killed at any point, and it panics when    *)
(* the file does not deserialize.  f64 amounts are modelled as exact integers, a date    *)
(* as a day number.  The model is bounded by the number of accounts and    *)
(* of transaction records; amounts, names and days come from small sets.   *)
(***************************************************************************)
EXTENDS Integers, Sequences, FiniteSets, TLC

VARIABLES file, pc, matches, accounts, before, out, today

vars == <<file, pc, matches, accounts, before, out, today>>

\* ----------------------------------------------------------------- bounds
MaxAccounts == 3
MaxRecords == 5

Names == {"a", "b"}
Descriptions == {"init"}
Amounts == {0 - 1, 2}
Days == {1}

\* ------------------------------------------------------------- data model
Transaction(date, description, amount, transaction_type) ==
    [date |-> date, description |-> description, amount |-> amount,
     transaction_type |-> transaction_type]

\* Account::new that drops the opening balance
AccountNewZero(name, balance) ==
    [name |-> name, balance |-> 0, transactions |-> <<>>]

\* Account::new
AccountNew(name, balance) ==
    [name |-> name, balance |-> balance, transactions |-> <<>>]

\* the two format! calls of transfer_to
TransferToDescription(name) == "Transfer to " \o name
TransferFromDescription(name) == "Transfer from " \o name

\* Utc::now() formatted as a day: one not earlier than the last one seen
Now == {d \in Days : d >= today}

\* ------------------------------------------------------- Account methods
\* Account::deposit without the push
depositNoRecord(self, transaction) ==
    [self EXCEPT !.balance = @ + transaction.amount]

\* Account::deposit that ignores an amount that is not positive
depositPositiveOnly(self, transaction) ==
    IF transaction.amount > 0
    THEN [self EXCEPT !.balance = @ + transaction.amount,
                      !.transactions = Append(@, transaction)]
    ELSE self

\* Account::deposit
deposit(self, transaction) ==
    [self EXCEPT !.balance = @ + transaction.amount,
                 !.transactions = Append(@, transaction)]

\* the guard of Account::withdraw written with > for >=
WithdrawGuardStrict(balance, amount) == balance > amount

\* the guard of Account::withdraw
WithdrawGuard(balance, amount) == balance >= amount

\* Account::withdraw that takes the amount before it tests the guard
withdrawDebitsFirst(self, transaction) ==
    IF self.balance >= transaction.amount
    THEN [self EXCEPT !.balance = @ - transaction.amount,
                      !.transactions = Append(@, transaction)]
    ELSE [self EXCEPT !.balance = @ - transaction.amount]

\* Account::withdraw: the account afterwards
withdraw(self, transaction) ==
    IF WithdrawGuard(self.balance, transaction.amount)
    THEN [self EXCEPT !.balance = @ - transaction.amount,
                      !.transactions = Append(@, transaction)]
    ELSE self

\* Account::withdraw: what it prints
withdrawPrints(self, transaction) ==
    IF WithdrawGuard(self.balance, transaction.amount)
    THEN <<>>
    ELSE <<"Insufficient funds.">>

\* the guard of Account::transfer_to written as the guard of withdraw
TransferGuardLikeWithdraw(balance, amount) == balance >= amount

\* the guard of Account::transfer_to written with >= for >
TransferGuardNonStrict(balance, amount) == balance >= 0 - amount

\* the guard of Account::transfer_to
TransferGuard(balance, amount) == balance > 0 - amount

\* Account::transfer_to without the credit of the destination balance
transfer_toNoCredit(self, other_account, amount, d1, d2) ==
    IF self.balance > 0 - amount
    THEN << [self EXCEPT
                !.balance = @ - amount,
                !.transactions = Append(@,
                    Transaction(d1, "Transfer to " \o other_account.name,
                                amount, "Transfer"))],
            [other_account EXCEPT
                !.transactions = Append(@,
                    Transaction(d2, "Transfer from " \o self.name,
                                amount, "Transfer"))] >>
    ELSE <<self, other_account>>

\* Account::transfer_to: <<source afterwards, destination afterwards>>;
\* d1 and d2 are the days of the two Utc::now() calls
transfer_to(self, other_account, amount, d1, d2) ==
    IF TransferGuard(self.balance, amount)
    THEN << [self EXCEPT
                !.balance = @ - amount,
                !.transactions = Append(@,
                    Transaction(d1, TransferToDescription(other_account.name),
                                amount, "Transfer"))],
            [other_account EXCEPT
                !.balance = @ + amount,
                !.transactions = Append(@,
                    Transaction(d2, TransferFromDescription(self.name),
                                amount, "Transfer"))] >>
    ELSE <<self, other_account>>

\* Account::transfer_to: what it prints
transferPrints(self, amount) ==
    IF TransferGuard(self.balance, amount) THEN <<>> ELSE <<"Insufficient funds.">>

\* the line display_history prints for one transaction (amounts are whole numbers here)
HistoryLine(t) ==
    ToString(t.date) \o " - $" \o ToString(t.amount) \o ".00 - " \o t.description

\* Account::display_history: the lines it prints
display_history(self) ==
    <<"Transaction history for " \o self.name>>
    \o [k \in 1 .. Len(self.transactions) |-> HistoryLine(self.transactions[k])]

\* ------------------------------------------------------------ collection
\* accounts.iter().find(|a| a.name == name): index of the first match, 0 if none
RECURSIVE FindFrom(_, _, _)
FindFrom(accts, name, i) ==
    IF i > Len(accts) THEN 0
    ELSE IF accts[i].name = name THEN i
    ELSE FindFrom(accts, name, i + 1)

Find(accts, name) == FindFrom(accts, name, 1)

\* the loop of transfer_funds looking for the destination only once the
\* source is found
RECURSIVE TransferScanSourceFirst(_, _, _, _, _, _)
TransferScanSourceFirst(accts, source_name, destination_name, i, src, dst) ==
    IF i > Len(accts) THEN <<src, dst>>
    ELSE LET isSrc == accts[i].name = source_name
             isDst == (~isSrc) /\ src # 0 /\ accts[i].name = destination_name
             src2 == IF isSrc THEN i ELSE src
             dst2 == IF isDst THEN i ELSE dst
         IN  IF src2 # 0 /\ dst2 # 0 THEN <<src2, dst2>>
             ELSE TransferScanSourceFirst(accts, source_name, destination_name,
                                          i + 1, src2, dst2)

\* the loop of transfer_funds with two separate ifs in place of if / else if
RECURSIVE TransferScanNoElse(_, _, _, _, _, _)
TransferScanNoElse(accts, source_name, destination_name, i, src, dst) ==
    IF i > Len(accts) THEN <<src, dst>>
    ELSE LET src2 == IF accts[i].name = source_name THEN i ELSE src
             dst2 == IF accts[i].name = destination_name THEN i ELSE dst
         IN  IF src2 # 0 /\ dst2 # 0 THEN <<src2, dst2>>
             ELSE TransferScanNoElse(accts, source_name, destination_name,
                                     i + 1, src2, dst2)

\* the loop of transfer_funds: <<source index, destination index>>, 0 = None
RECURSIVE TransferScan(_, _, _, _, _, _)
TransferScan(accts, source_name, destination_name, i, src, dst) ==
    IF i > Len(accts) THEN <<src, dst>>
    ELSE LET isSrc == accts[i].name = source_name
             isDst == (~isSrc) /\ accts[i].name = destination_name
             src2 == IF isSrc THEN i ELSE src
             dst2 == IF isDst THEN i ELSE dst
         IN  IF src2 # 0 /\ dst2 # 0 THEN <<src2, dst2>>
             ELSE TransferScan(accts, source_name, destination_name, i + 1, src2, dst2)

TransferLookup(accts, source_name, destination_name) ==
    TransferScan(accts, source_name, destination_name, 1, 0, 0)

\* add_account recording the opening Deposit with the magnitude of the balance
add_accountMagnitude(accts, name, balance, description, d) ==
    Append(accts,
           [name |-> name, balance |-> balance,
            transactions |->
               <<Transaction(d, description,
                             IF balance < 0 THEN 0 - balance ELSE balance, "Deposit")>>])

\* add_account that inserts the new account at the front
add_accountFront(accts, name, balance, description, d) ==
    <<[name |-> name, balance |-> balance,
       transactions |-> <<Transaction(d, description, balance, "Deposit")>>]>> \o accts

\* add_account: the collection afterwards
add_account(accts, name, balance, description, d) ==
    Append(accts,
           [AccountNew(name, balance) EXCEPT
               !.transactions = Append(@, Transaction(d, description, balance, "Deposit"))])

\* deposit_funds that opens the account when the name is unknown
deposit_fundsUpsert(accts, name, amount, description, d) ==
    LET i == Find(accts, name) IN
    IF i # 0
    THEN [accts EXCEPT ![i] = deposit(@, Transaction(d, description, amount, "Deposit"))]
    ELSE Append(accts,
                [name |-> name, balance |-> amount,
                 transactions |-> <<Transaction(d, description, amount, "Deposit")>>])

\* deposit_funds: the collection afterwards
deposit_funds(accts, name, amount, description, d) ==
    LET i == Find(accts, name) IN
    IF i # 0
    THEN [accts EXCEPT ![i] = deposit(@, Transaction(d, description, amount, "Deposit"))]
    ELSE accts

depositPrints(accts, name) ==
    IF Find(accts, name) # 0 THEN <<"successful">> ELSE <<"account not found">>

\* withdraw_funds: the collection afterwards
withdraw_funds(accts, name, amount, description, d) ==
    LET i == Find(accts, name) IN
    IF i # 0
    THEN [accts EXCEPT ![i] = withdraw(@, Transaction(d, description, amount, "Withdrawal"))]
    ELSE accts

withdrawFundsPrints(accts, name, amount, description, d) ==
    LET i == Find(accts, name) IN
    IF i # 0
    THEN withdrawPrints(accts[i], Transaction(d, description, amount, "Withdrawal"))
         \o <<"successful">>
    ELSE <<"account not found">>

\* transfer_funds: the collection afterwards
transfer_funds(accts, source_name, destination_name, amount, d1, d2) ==
    LET found == TransferLookup(accts, source_name, destination_name)
        s == found[1]
        t == found[2]
    IN  IF s # 0 /\ t # 0
        THEN LET pair == transfer_to(accts[s], accts[t], amount, d1, d2)
             IN  [accts EXCEPT ![s] = pair[1], ![t] = pair[2]]
        ELSE accts

transferFundsPrints(accts, source_name, destination_name, amount) ==
    LET found == TransferLookup(accts, source_name, destination_name)
    IN  IF found[1] # 0 /\ found[2] # 0
        THEN transferPrints(accts[found[1]], amount) \o <<"successful">>
        ELSE <<"account(s) not found">>

\* display_transaction_history: the lines it prints (the backquotes around the
\* name in the not-found line are left out)
display_transaction_history(accts, name) ==
    LET i == Find(accts, name) IN
    IF i # 0 THEN display_history(accts[i])
    ELSE <<name \o " not found.">>

\* the sort of display_accounts comparing a with b: ascending balance
RECURSIVE InsertSortedAscending(_, _)
InsertSortedAscending(sorted, a) ==
    IF sorted = <<>> THEN <<a>>
    ELSE IF Head(sorted).balance <= a.balance
         THEN <<Head(sorted)>> \o InsertSortedAscending(Tail(sorted), a)
         ELSE <<a>> \o sorted

\* sort_by(|a, b| b.balance.partial_cmp(&a.balance)): stable, descending balance
RECURSIVE InsertSorted(_, _)
InsertSorted(sorted, a) ==
    IF sorted = <<>> THEN <<a>>
    ELSE IF Head(sorted).balance >= a.balance
         THEN <<Head(sorted)>> \o InsertSorted(Tail(sorted), a)
         ELSE <<a>> \o sorted

RECURSIVE SortedAccounts(_)
SortedAccounts(accts) ==
    IF accts = <<>> THEN <<>>
    ELSE InsertSorted(SortedAccounts(SubSeq(accts, 1, Len(accts) - 1)), accts[Len(accts)])

\* fold(0.0, |acc, account| acc + account.balance)
RECURSIVE TotalBalance(_)
TotalBalance(accts) ==
    IF accts = <<>> THEN 0
    ELSE TotalBalance(SubSeq(accts, 1, Len(accts) - 1)) + accts[Len(accts)].balance

\* display_accounts: the lines it prints
display_accounts(accts) ==
    IF accts = <<>> THEN <<"No accounts found.">>
    ELSE LET sorted == SortedAccounts(accts)
         IN  [k \in 1 .. Len(sorted) |->
                 "$" \o ToString(sorted[k].balance) \o ".00 " \o sorted[k].name]
             \o <<"$" \o ToString(TotalBalance(accts)) \o ".00 Total">>

\* ------------------------------------------------------------ persistence
\* serde_json::to_string of one Transaction / Account / the Vec<Account>:
\* a JSON object is the sequence of its <<key, value>> members
TransactionToJson(t) ==
    << <<"date", t.date>>, <<"description", t.description>>,
       <<"amount", t.amount>>, <<"transaction_type", t.transaction_type>> >>

AccountToJson(a) ==
    << <<"name", a.name>>, <<"balance", a.balance>>,
       <<"transactions",
         [k \in 1 .. Len(a.transactions) |-> TransactionToJson(a.transactions[k])]>> >>

to_string(accts) == [k \in 1 .. Len(accts) |-> AccountToJson(accts[k])]

\* the value of member key of a JSON object
Member(obj, key) == obj[CHOOSE k \in 1 .. Len(obj) : obj[k][1] = key][2]

TransactionFromJson(obj) ==
    Transaction(Member(obj, "date"), Member(obj, "description"),
                Member(obj, "amount"), Member(obj, "transaction_type"))

\* Account deserialized with its transactions skipped
AccountFromJsonNoLog(obj) ==
    [name |-> Member(obj, "name"), balance |-> Member(obj, "balance"),
     transactions |-> <<>>]

AccountFromJson(obj) ==
    [name |-> Member(obj, "name"), balance |-> Member(obj, "balance"),
     transactions |->
        LET ts == Member(obj, "transactions")
        IN  [k \in 1 .. Len(ts) |-> TransactionFromJson(ts[k])]]

from_str(json) == [k \in 1 .. Len(json) |-> AccountFromJson(json[k])]

\* accounts.json: absent, holding a complete JSON text, just truncated by
\* File::create, or holding a strict prefix of the JSON text of a write_all
\* that was cut short
NoFile == [kind |-> "absent", text |-> <<>>]
JsonFile(json) == [kind |-> "json", text |-> json]
TruncatedFile == [kind |-> "truncated", text |-> <<>>]
PartialFile(json) == [kind |-> "partial", text |-> json]

\* serde_json::from_str returns Ok: the text is a complete JSON array
Deserializes(f) == f.kind = "json"

\* load_accounts that falls back to the empty list when from_str fails
LoadPanicsNever(f) == FALSE

\* load_accounts panics: the file opens and from_str(..).expect(..) fails
LoadPanics(f) == f.kind # "absent" /\ ~Deserializes(f)

\* load_accounts: the list it returns (it returns none when LoadPanics)
load_accounts(f) == IF Deserializes(f) THEN from_str(f.text) ELSE <<>>

\* save_accounts, File::create: the file is truncated
create(f) == TruncatedFile

\* save_accounts, write_all of the serialized list: the file afterwards
save_accounts(accts) == JsonFile(to_string(accts))

\* ----------------------------------------------------------- command line
\* the matches of clap: the subcommand (list when there is none) and its arguments
Matches(cmd, name, dest, amount, description) ==
    [cmd |-> cmd, name |-> name, dest |-> dest, amount |-> amount,
     description |-> description]

NoMatches == Matches("none", "", "", 0, "")

RECURSIVE TotalRecords(_)
TotalRecords(accts) ==
    IF accts = <<>> THEN 0
    ELSE TotalRecords(Tail(accts)) + Len(Head(accts).transactions)

\* the number of transaction records a command may add
Room(m) ==
    CASE m.cmd \in {"add", "deposit", "withdraw"} -> 1
      [] m.cmd = "transfer" -> 2
      [] OTHER -> 0

CommandLines ==
    {Matches("add", n, "", amt, d) : n \in Names, amt \in Amounts, d \in Descriptions}
    \cup {Matches("deposit", n, "", amt, d) : n \in Names, amt \in Amounts, d \in Descriptions}
    \cup {Matches("withdraw", n, "", amt, d) : n \in Names, amt \in Amounts, d \in Descriptions}
    \cup {Matches("transfer", n, m, amt, "") : n \in Names, m \in Names, amt \in Amounts}
    \cup {Matches("history", n, "", 0, "") : n \in Names}
    \cup {Matches("list", "", "", 0, "")}

\* ---------------------------------------------------------------- actions
\* no process is running: before the first run, or the last run returned
\* from main, panicked, or was killed
Idle == {"start", "panicked", "crashed"}

Init ==
    /\ file = NoFile
    /\ pc = "start"
    /\ matches = NoMatches
    /\ accounts = <<>>
    /\ before = <<>>
    /\ out = <<>>
    /\ today = 1

\* the command lines the bounds leave room for, given the loaded collection
Runnable(loaded) ==
    {m \in CommandLines :
        /\ TotalRecords(loaded) + Room(m) <= MaxRecords
        /\ m.cmd = "add" => Len(loaded) < MaxAccounts}

\* main with the add subcommand: get_matches, load_accounts, add_account
Add ==
    /\ pc \in Idle
    /\ ~LoadPanics(file)
    /\ LET loaded == load_accounts(file) IN
       \E m \in Runnable(loaded), d \in Now :
          /\ m.cmd = "add"
          /\ matches' = m
          /\ before' = loaded
          /\ accounts' = add_account(loaded, m.name, m.amount, m.description, d)
          /\ out' = <<"new account " \o m.name>>
          /\ today' = d
    /\ pc' = "ran"
    /\ UNCHANGED file

\* main with the deposit subcommand
Deposit ==
    /\ pc \in Idle
    /\ ~LoadPanics(file)
    /\ LET loaded == load_accounts(file) IN
       \E m \in Runnable(loaded), d \in Now :
          /\ m.cmd = "deposit"
          /\ matches' = m
          /\ before' = loaded
          /\ accounts' = deposit_funds(loaded, m.name, m.amount, m.description, d)
          /\ out' = depositPrints(loaded, m.name)
          /\ today' = d
    /\ pc' = "ran"
    /\ UNCHANGED file

\* main with the withdraw subcommand
Withdraw ==
    /\ pc \in Idle
    /\ ~LoadPanics(file)
    /\ LET loaded == load_accounts(file) IN
       \E m \in Runnable(loaded), d \in Now :
          /\ m.cmd = "withdraw"
          /\ matches' = m
          /\ before' = loaded
          /\ accounts' = withdraw_funds(loaded, m.name, m.amount, m.description, d)
          /\ out' = withdrawFundsPrints(loaded, m.name, m.amount, m.description, d)
          /\ today' = d
    /\ pc' = "ran"
    /\ UNCHANGED file

\* main with the transfer subcommand
Transfer ==
    /\ pc \in Idle
    /\ ~LoadPanics(file)
    /\ LET loaded == load_accounts(file) IN
       \E m \in Runnable(loaded), d1 \in Now :
          \E d2 \in {d \in Days : d >= d1} :
          /\ m.cmd = "transfer"
          /\ matches' = m
          /\ before' = loaded
          /\ accounts' = transfer_funds(loaded, m.name, m.dest, m.amount, d1, d2)
          /\ out' = transferFundsPrints(loaded, m.name, m.dest, m.amount)
          /\ today' = d2
    /\ pc' = "ran"
    /\ UNCHANGED file

\* main with the history subcommand
History ==
    /\ pc \in Idle
    /\ ~LoadPanics(file)
    /\ LET loaded == load_accounts(file) IN
       \E m \in Runnable(loaded) :
          /\ m.cmd = "history"
          /\ matches' = m
          /\ before' = loaded
          /\ accounts' = loaded
          /\ out' = display_transaction_history(loaded, m.name)
    /\ pc' = "ran"
    /\ UNCHANGED <<file, today>>

\* main with no subcommand
List ==
    /\ pc \in Idle
    /\ ~LoadPanics(file)
    /\ LET loaded == load_accounts(file) IN
          /\ matches' = Matches("list", "", "", 0, "")
          /\ before' = loaded
          /\ accounts' = loaded
          /\ out' = display_accounts(loaded)
    /\ pc' = "ran"
    /\ UNCHANGED <<file, today>>

\* main, line 271, when load_accounts panics: the process ends there, with
\* no list loaded, no subcommand run and nothing saved
LoadFails ==
    /\ pc \in Idle
    /\ LoadPanics(file)
    /\ pc' = "panicked"
    /\ matches' = NoMatches
    /\ accounts' = <<>>
    /\ before' = <<>>
    /\ out' = <<"Failed to deserialize accounts.">>
    /\ UNCHANGED <<file, today>>

\* main, line 320, save_accounts up to File::create: the file is truncated
Create ==
    /\ pc = "ran"
    /\ file' = create(file)
    /\ pc' = "saving"
    /\ UNCHANGED <<matches, accounts, before, out, today>>

\* save_accounts, write_all; then main returns and only the file is left
Write ==
    /\ pc = "saving"
    /\ file' = save_accounts(accounts)
    /\ pc' = "start"
    /\ matches' = NoMatches
    /\ accounts' = <<>>
    /\ before' = <<>>
    /\ out' = <<>>
    /\ UNCHANGED today

\* the process is killed (or the machine stops) between load and save, or
\* inside save_accounts after File::create: the memory is lost; the file is
\* as it is, or holds the part of the text write_all got out
Crash ==
    /\ pc \in {"ran", "saving"}
    /\ file' \in IF pc = "saving"
                 THEN {file, PartialFile(to_string(accounts))}
                 ELSE {file}
    /\ pc' = "crashed"
    /\ matches' = NoMatches
    /\ accounts' = <<>>
    /\ before' = <<>>
    /\ out' = <<>>
    /\ UNCHANGED today

Next ==
    \/ Add
    \/ Deposit
    \/ Withdraw
    \/ Transfer
    \/ History
    \/ List
    \/ LoadFails
    \/ Create
    \/ Write
    \/ Crash

Spec == Init /\ [][Next]_vars

\* ------------------------------------------------- vocabulary of the claims
\* the collection the run loaded, i.e. the state before the call
Pre == load_accounts(file)

Ran(cmd) == pc = "ran" /\ matches.cmd = cmd

\* the indices of the accounts called name, and the first of them
Named(accts, name) == {i \in 1 .. Len(accts) : accts[i].name = name}
FirstNamed(accts, name) ==
    CHOOSE i \in Named(accts, name) : \A j \in Named(accts, name) : i <= j

\* log is old with exactly one record appended: that record
Last(log) == log[Len(log)]
AppendsOne(old, log) ==
    Len(log) = Len(old) + 1 /\ SubSeq(log, 1, Len(old)) = old

\* both names of a transfer are found: they differ and each names an account
BothFound ==
    /\ matches.name # matches.dest
    /\ Named(Pre, matches.name) # {}
    /\ Named(Pre, matches.dest) # {}

\* the accounts the scan of transfer_funds resolved
Src == TransferLookup(Pre, matches.name, matches.dest)[1]
Dst == TransferLookup(Pre, matches.name, matches.dest)[2]

\* the transfer was applied / refused
TransferAccepted == Ran("transfer") /\ BothFound /\ accounts # Pre
TransferRejected == Ran("transfer") /\ BothFound /\ accounts = Pre

\* ---------------------------------------------------------------------- C1
\* s and t are the two accounts of an applied transfer: s lost amount and
\* gained a Transfer to record, t gained amount and a Transfer from record,
\* nothing else changed
AppliedBetween(s, t) ==
    /\ Len(accounts) = Len(Pre)
    /\ \A k \in 1 .. Len(Pre) : k \notin {s, t} => accounts[k] = Pre[k]
    /\ accounts[s].name = Pre[s].name
    /\ accounts[t].name = Pre[t].name
    /\ accounts[s].balance = Pre[s].balance - matches.amount
    /\ accounts[t].balance = Pre[t].balance + matches.amount
    /\ AppendsOne(Pre[s].transactions, accounts[s].transactions)
    /\ AppendsOne(Pre[t].transactions, accounts[t].transactions)
    /\ Last(accounts[s].transactions).amount = matches.amount
    /\ Last(accounts[t].transactions).amount = matches.amount
    /\ Last(accounts[s].transactions).transaction_type = "Transfer"
    /\ Last(accounts[t].transactions).transaction_type = "Transfer"
    /\ Last(accounts[s].transactions).description = "Transfer to " \o Pre[t].name
    /\ Last(accounts[t].transactions).description = "Transfer from " \o Pre[s].name

\* C1: a transfer_funds call that finds both accounts either leaves the whole
\* collection as it was, or moves exactly amount from an account called
\* source_name to an account called destination_name and appends exactly one
\* Transfer record to each of the two logs; there is no third outcome.
C1_TransferAtomicity ==
    (Ran("transfer") /\ BothFound) =>
        \/ accounts = Pre
        \/ \E s \in Named(Pre, matches.name) : \E t \in Named(Pre, matches.dest) :
              AppliedBetween(s, t)

C1_Witness ==
    /\ TransferAccepted
    /\ out = <<"successful">>
    /\ \E s \in Named(Pre, matches.name) : accounts[s].balance # Pre[s].balance

\* ---------------------------------------------------------------------- C2
\* the signed amount of a record: Deposit +, Withdrawal -, Transfer to -,
\* Transfer from +
Signed(t) ==
    CASE t.transaction_type = "Deposit" -> t.amount
      [] t.transaction_type = "Withdrawal" -> 0 - t.amount
      [] t.transaction_type = "Transfer" ->
            IF \E n \in Names : t.description = "Transfer to " \o n
            THEN 0 - t.amount
            ELSE t.amount

RECURSIVE SignedSum(_)
SignedSum(log) ==
    IF log = <<>> THEN 0 ELSE SignedSum(SubSeq(log, 1, Len(log) - 1)) + Signed(Last(log))

\* the records this run appended to account i, and the balance account i
\* started the run with (the opening balance for an account the run created)
Recorded(i) ==
    IF i <= Len(Pre)
    THEN SubSeq(accounts[i].transactions, Len(Pre[i].transactions) + 1,
                Len(accounts[i].transactions))
    ELSE accounts[i].transactions
StartingBalance(i) == IF i <= Len(Pre) THEN Pre[i].balance ELSE matches.amount

\* C2 as claimed: the balance is the starting balance plus the signed sum of
\* the records the operations recorded, the record of add_account included.
C2_AsClaimed ==
    pc = "ran" =>
        \A i \in 1 .. Len(accounts) :
            accounts[i].balance = StartingBalance(i) + SignedSum(Recorded(i))

\* C2 amended: the balance of every account is the signed sum of its whole
\* log, the opening Deposit of add_account included (the opening balance is
\* not counted a second time); an account that existed before an operation
\* has its balance before plus the signed sum of what the operation recorded.
C2_BalanceConsistency ==
    pc = "ran" =>
        \A i \in 1 .. Len(accounts) :
            /\ accounts[i].balance = SignedSum(accounts[i].transactions)
            /\ i <= Len(Pre) =>
                  accounts[i].balance = Pre[i].balance + SignedSum(Recorded(i))

C2_Witness ==
    /\ pc = "ran"
    /\ \E i \in 1 .. Len(accounts) :
          /\ Len(accounts[i].transactions) >= 3
          /\ \E k \in 1 .. Len(accounts[i].transactions) :
                accounts[i].transactions[k].transaction_type = "Transfer"
          /\ \E k \in 1 .. Len(accounts[i].transactions) :
                accounts[i].transactions[k].transaction_type = "Withdrawal"

\* ---------------------------------------------------------------------- C3
\* C3: withdraw_funds on an existing account changes nothing when
\* amount > balance; when amount <= balance it takes exactly amount off the
\* balance of the first account of that name and appends exactly one
\* Withdrawal record with that amount and description, and the balance it
\* leaves is never negative.
C3_WithdrawalGuard ==
    (Ran("withdraw") /\ Named(Pre, matches.name) # {}) =>
        LET i == FirstNamed(Pre, matches.name) IN
        IF matches.amount > Pre[i].balance
        THEN accounts = Pre
        ELSE /\ Len(accounts) = Len(Pre)
             /\ \A k \in 1 .. Len(Pre) : k # i => accounts[k] = Pre[k]
             /\ accounts[i].name = Pre[i].name
             /\ accounts[i].balance = Pre[i].balance - matches.amount
             /\ accounts[i].balance >= 0
             /\ AppendsOne(Pre[i].transactions, accounts[i].transactions)
             /\ Last(accounts[i].transactions).amount = matches.amount
             /\ Last(accounts[i].transactions).transaction_type = "Withdrawal"
             /\ Last(accounts[i].transactions).description = matches.description

C3_Witness ==
    /\ Ran("withdraw")
    /\ Named(Pre, matches.name) # {}
    /\ Pre[FirstNamed(Pre, matches.name)].balance = matches.amount
    /\ accounts # Pre

\* ---------------------------------------------------------------------- C4
\* the accounts a run changed
Changed == {k \in 1 .. Len(Pre) : accounts[k] # Pre[k]}

\* C4 as claimed: every operation that resolves a name acts on the first
\* account of that name in collection order: deposit_funds and withdraw_funds
\* change no other account, display_transaction_history prints the log of
\* that account, and transfer_funds changes only the first account called
\* source_name and the first account called destination_name.
C4_AsClaimed ==
    /\ (Ran("deposit") \/ Ran("withdraw")) =>
          \A k \in Changed : k = FirstNamed(Pre, matches.name)
    /\ (Ran("history") /\ Named(Pre, matches.name) # {}) =>
          out = display_history(Pre[FirstNamed(Pre, matches.name)])
    /\ Ran("transfer") =>
          \A k \in Changed :
              \/ k = FirstNamed(Pre, matches.name)
              \/ k = FirstNamed(Pre, matches.dest)

\* ---------------------------------------------------------------------- C5
\* C5: with both accounts found, the transfer is applied exactly when the
\* balance of the source before the call is strictly above -amount, whatever
\* the destination holds; a refused transfer prints Insufficient funds.
C5_TransferGuardRule ==
    (Ran("transfer") /\ BothFound) =>
        /\ (accounts # Pre) <=> (Pre[Src].balance > 0 - matches.amount)
        /\ (out[1] = "Insufficient funds.") <=> ~(Pre[Src].balance > 0 - matches.amount)

\* a transfer applied although the withdrawal rule balance >= amount fails
C5_Witness ==
    /\ TransferAccepted
    /\ Pre[Src].balance < matches.amount

\* ---------------------------------------------------------------------- C6
\* C6 as claimed: after an applied transfer the source balance is never
\* below -amount.
C6_AsClaimed ==
    TransferAccepted => accounts[Src].balance >= 0 - matches.amount

\* C6 amended: after an applied transfer the source balance is its balance
\* before minus amount, which is strictly above -2 * amount; it is at least
\* -amount exactly when the balance before was not negative.
C6_OverdraftBound ==
    TransferAccepted =>
        /\ accounts[Src].balance = Pre[Src].balance - matches.amount
        /\ accounts[Src].balance > 0 - (2 * matches.amount)
        /\ (accounts[Src].balance >= 0 - matches.amount) <=> (Pre[Src].balance >= 0)

C6_Witness ==
    /\ TransferAccepted
    /\ accounts[Src].balance < 0 - matches.amount

\* ---------------------------------------------------------------------- C7
\* C7 as claimed: every record of every log has amount >= 0.
C7_AsClaimed ==
    \A i \in 1 .. Len(accounts) :
        \A k \in 1 .. Len(accounts[i].transactions) :
            accounts[i].transactions[k].amount >= 0

\* C7 amended: every record carries exactly the amount the dispatcher gave
\* the operation that recorded it, sign included, so a log holds a negative
\* amount as soon as a negative amount is supplied; the records of a run
\* given an amount >= 0 have amount >= 0.
C7_AmountAsSupplied ==
    pc = "ran" =>
        \A i \in 1 .. Len(accounts) :
            \A k \in 1 .. Len(Recorded(i)) :
                /\ Recorded(i)[k].amount = matches.amount
                /\ matches.amount >= 0 => Recorded(i)[k].amount >= 0

C7_Witness ==
    /\ pc = "ran"
    /\ matches.amount < 0
    /\ \E i \in 1 .. Len(accounts) :
          /\ Recorded(i) # <<>>
          /\ Recorded(i)[1].amount < 0

\* ---------------------------------------------------------------------- C8
\* C8: add_account appends exactly one account at the end, with the given
\* name, balance = initial_balance and a log of exactly one record, a Deposit
\* of initial_balance with the given description; a negative initial balance
\* and a name already in use are accepted; the accounts that were there are
\* unchanged and keep their order.
C8_AccountCreation ==
    Ran("add") =>
        /\ Len(accounts) = Len(Pre) + 1
        /\ SubSeq(accounts, 1, Len(Pre)) = Pre
        /\ Last(accounts).name = matches.name
        /\ Last(accounts).balance = matches.amount
        /\ Len(Last(accounts).transactions) = 1
        /\ Last(accounts).transactions[1].transaction_type = "Deposit"
        /\ Last(accounts).transactions[1].amount = matches.amount
        /\ Last(accounts).transactions[1].description = matches.description

\* an account created with a negative balance under a name already in use
C8_Witness ==
    /\ Ran("add")
    /\ matches.amount < 0
    /\ Named(Pre, matches.name) # {}
    /\ Len(accounts) = Len(Pre) + 1

\* ---------------------------------------------------------------------- C9
\* C9: deposit_funds or withdraw_funds with a name no account has prints
\* account not found, transfer_funds with a source or destination name no
\* account has prints account(s) not found, and the collection is unchanged.
C9_AccountNotFound ==
    /\ ((Ran("deposit") \/ Ran("withdraw")) /\ Named(Pre, matches.name) = {}) =>
          (out = <<"account not found">> /\ accounts = Pre)
    /\ (Ran("transfer")
        /\ (Named(Pre, matches.name) = {} \/ Named(Pre, matches.dest) = {})) =>
          (out = <<"account(s) not found">> /\ accounts = Pre)

C9_Witness ==
    /\ Ran("transfer")
    /\ Named(Pre, matches.name) # {}
    /\ Named(Pre, matches.dest) = {}
    /\ out = <<"account(s) not found">>

\* --------------------------------------------------------------------- C10
\* a withdrawal that found its account and was refused
WithdrawRejected ==
    /\ Ran("withdraw")
    /\ Named(Pre, matches.name) # {}
    /\ matches.amount > Pre[FirstNamed(Pre, matches.name)].balance

\* C10 as claimed: a refused withdrawal or transfer reports insufficient
\* funds and nothing else, and reaches the save step with the collection
\* unchanged.
C10_AsClaimed ==
    (WithdrawRejected \/ TransferRejected) =>
        /\ out = <<"Insufficient funds.">>
        /\ accounts = Pre
        /\ ENABLED Create

\* --------------------------------------------------------------------- C11
\* C11 as claimed: whenever a run is killed, between load and save or during
\* save, the file is left holding a complete collection: the one the run
\* loaded or the one it produced, never an empty or partial text.
C11_AsClaimed ==
    [][pc' = "crashed" =>
          /\ ~LoadPanics(file')
          /\ load_accounts(file') \in {before, accounts}]_vars

\* --------------------------------------------------------------------- C12
\* the operation of the run changes nothing: a display, a name not found, or
\* a withdrawal or transfer the guard refuses
Quiet ==
    \/ matches.cmd \in {"history", "list"}
    \/ /\ matches.cmd \in {"deposit", "withdraw"}
       /\ Named(before, matches.name) = {}
    \/ /\ matches.cmd = "transfer"
       /\ \/ matches.name = matches.dest
          \/ Named(before, matches.name) = {}
          \/ Named(before, matches.dest) = {}
    \/ /\ matches.cmd = "withdraw"
       /\ Named(before, matches.name) # {}
       /\ matches.amount > before[FirstNamed(before, matches.name)].balance
    \/ /\ matches.cmd = "transfer"
       /\ matches.name # matches.dest
       /\ Named(before, matches.name) # {}
       /\ Named(before, matches.dest) # {}
       /\ before[TransferLookup(before, matches.name, matches.dest)[1]].balance
             <= 0 - matches.amount

\* C12: a run that neither panics nor is killed loads once, then runs at most
\* one operation, then saves once, in that order: the file is read only when
\* the run starts and written only by the save that follows the operation;
\* what is saved is the list in memory, and it is the list that was loaded
\* when the operation is a display, finds no account or is refused.
C12_InvocationProtocol ==
    [][/\ (pc \in Idle /\ pc' = "ran") =>
             /\ file' = file
             /\ before' = load_accounts(file)
             /\ matches'.cmd \in {"history", "list"} => accounts' = before'
       /\ pc \in Idle => pc' \in {"ran", "panicked"}
       /\ pc = "ran" => pc' \in {"saving", "crashed"}
       /\ (pc = "ran" /\ pc' = "saving") => (accounts' = accounts /\ before' = before)
       /\ pc = "saving" => pc' \in {"start", "crashed"}
       /\ (pc = "saving" /\ pc' = "start") =>
             /\ Deserializes(file')
             /\ load_accounts(file') = accounts
             /\ Quiet => load_accounts(file') = before
       /\ file' # file => pc \in {"ran", "saving"}]_vars

\* a refused withdrawal that reached the save
C12_Witness ==
    /\ pc = "saving"
    /\ matches.cmd = "withdraw"
    /\ Named(before, matches.name) # {}
    /\ Quiet
    /\ accounts = before

AccountLine(a) == "$" \o ToString(a.balance) \o ".00 " \o a.name

RECURSIVE SumOfBalances(_)
SumOfBalances(accts) ==
    IF accts = <<>> THEN 0 ELSE Head(accts).balance + SumOfBalances(Tail(accts))

\* C14: on a non-empty collection display_accounts prints one line for every
\* account, each account once, in order of descending balance, then a total
\* line with the sum of all balances, and the collection in memory is the
\* loaded one: same accounts, same order, same balances and logs.
C14_DisplayAccounts ==
    (Ran("list") /\ Pre # <<>>) =>
        LET n == Len(Pre) IN
        /\ accounts = Pre
        /\ Len(out) = n + 1
        /\ out[n + 1] = "$" \o ToString(SumOfBalances(Pre)) \o ".00 Total"
        /\ \E p \in [1 .. n -> 1 .. n] :
              /\ \A i, j \in 1 .. n : i # j => p[i] # p[j]
              /\ \A k \in 1 .. n : out[k] = AccountLine(Pre[p[k]])
              /\ \A k \in 1 .. n - 1 : Pre[p[k]].balance >= Pre[p[k + 1]].balance

\* a listing whose order is not the order of the collection
C14_Witness ==
    /\ Ran("list")
    /\ Len(Pre) >= 2
    /\ Pre[1].balance < Pre[2].balance
    /\ out[1] = AccountLine(Pre[2])

\* --------------------------------------------------------------------- C15
RECURSIVE CountRecorded(_)
CountRecorded(i) ==
    IF i = 0 THEN 0 ELSE CountRecorded(i - 1) + Len(Recorded(i))

\* C15: an operation never removes or reorders accounts and never modifies,
\* removes or reorders records: every account that was there keeps its place
\* and name, its log before is a prefix of its log after, it gains at most
\* one record, and the operation appends at most two records in all.
C15_AppendOnly ==
    pc = "ran" =>
        /\ Len(accounts) >= Len(Pre)
        /\ \A i \in 1 .. Len(Pre) :
              /\ accounts[i].name = Pre[i].name
              /\ Len(accounts[i].transactions) >= Len(Pre[i].transactions)
              /\ Len(accounts[i].transactions) <= Len(Pre[i].transactions) + 1
              /\ SubSeq(accounts[i].transactions, 1, Len(Pre[i].transactions))
                    = Pre[i].transactions
        /\ \A i \in 1 .. Len(accounts) : Len(Recorded(i)) <= 1
        /\ CountRecorded(Len(accounts)) <= 2

\* an account added behind accounts that already hold several records
C15_Witness ==
    /\ Ran("add")
    /\ Len(Pre) >= 1
    /\ Len(Pre[1].transactions) >= 2
    /\ Len(accounts) = Len(Pre) + 1

\* --------------------------------------------------------------------- C16
\* C16: deposit_funds on an existing account, whatever the sign of amount,
\* adds exactly amount to the balance of the first account of that name and
\* appends exactly one Deposit record with that amount and description; it
\* is never refused and changes no other account.
C16_UnconditionalDeposit ==
    (Ran("deposit") /\ Named(Pre, matches.name) # {}) =>
        LET i == FirstNamed(Pre, matches.name) IN
        /\ out = <<"successful">>
        /\ Len(accounts) = Len(Pre)
        /\ \A k \in 1 .. Len(Pre) : k # i => accounts[k] = Pre[k]
        /\ accounts[i].name = Pre[i].name
        /\ accounts[i].balance = Pre[i].balance + matches.amount
        /\ AppendsOne(Pre[i].transactions, accounts[i].transactions)
        /\ Last(accounts[i].transactions).amount = matches.amount
        /\ Last(accounts[i].transactions).transaction_type = "Deposit"
        /\ Last(accounts[i].transactions).description = matches.description

\* a deposit of a negative amount, applied
C16_Witness ==
    /\ Ran("deposit")
    /\ Named(Pre, matches.name) # {}
    /\ matches.amount < 0
    /\ accounts[FirstNamed(Pre, matches.name)].balance
          < Pre[FirstNamed(Pre, matches.name)].balance

\* --------------------------------------------------------------------- C17
UniqueNames(accts) ==
    \A i, j \in 1 .. Len(accts) : accts[i].name = accts[j].name => i = j

\* the rearrangements of n positions, and a collection rearranged
Rearrangements(n) ==
    {p \in [1 .. n -> 1 .. n] : \A i, j \in 1 .. n : p[i] = p[j] => i = j}
Rearranged(accts, p) == [k \in 1 .. Len(accts) |-> accts[p[k]]]

C18_FatalLoadFailure ==
    [][(pc \in Idle /\ file.kind \in {"truncated", "partial"}) =>
          /\ pc' = "panicked"
          /\ file' = file
          /\ accounts' = <<>>
          /\ out' = <<"Failed to deserialize accounts.">>]_vars

C18_Witness ==
    /\ pc = "panicked"
    /\ file.kind = "partial"
    /\ out = <<"Failed to deserialize accounts.">>

\* --------------------------------------------------------------------- C19
\* the amounts deposited less the amounts withdrawn that a log records
RECURSIVE DepositedLessWithdrawn(_)
DepositedLessWithdrawn(log) ==
    IF log = <<>> THEN 0
    ELSE DepositedLessWithdrawn(Tail(log))
         + (CASE Head(log).transaction_type = "Deposit" -> Head(log).amount
              [] Head(log).transaction_type = "Withdrawal" -> 0 - Head(log).amount
              [] OTHER -> 0)

RECURSIVE NetDeposits(_)
NetDeposits(accts) ==
    IF accts = <<>> THEN 0
    ELSE DepositedLessWithdrawn(Head(accts).transactions) + NetDeposits(Tail(accts))

\* C19: a transfer_funds call, applied, refused or not found, leaves the sum
\* of all balances as it was, and after any sequence of operations that sum
\* is the sum of the opening balances and deposits less the withdrawals that
\* were applied.
C19_Conservation ==
    pc = "ran" =>
        /\ matches.cmd = "transfer" => SumOfBalances(accounts) = SumOfBalances(Pre)
        /\ SumOfBalances(accounts) = NetDeposits(accounts)

\* an applied transfer in a collection that has seen a withdrawal
C19_Witness ==
    /\ TransferAccepted
    /\ \E i \in 1 .. Len(accounts) : \E k \in 1 .. Len(accounts[i].transactions) :
          accounts[i].transactions[k].transaction_type = "Withdrawal"
    /\ SumOfBalances(accounts) = SumOfBalances(Pre)

\* --------------------------------------------------------------------- C20
\* C20: transfer_funds with source_name = destination_name changes no
\* account and prints account(s) not found, also when an account of that
\* name exists.
C20_SelfTransfer ==
    (Ran("transfer") /\ matches.name = matches.dest) =>
        /\ accounts = Pre
        /\ out = <<"account(s) not found">>

C20_Witness ==
    /\ Ran("transfer")
    /\ matches.name = matches.dest
    /\ Named(Pre, matches.name) # {}
    /\ out = <<"account(s) not found">>

====
